---- MODULE Spec2Model ----
(***************************************************************************)
(* Model of internal/importer/importer.go: one activeImport session, its   *)
(* scheduler goroutine (run), the goroutines it spawns (buffer, flush),    *)
(* the producers calling Import, and callers of Close and Drain.           *)
(*                                                                         *)
(* Every goroutine is a process; a step of a process is the code between   *)
(* two points where it can block (mutex.Lock, channel send/receive,        *)
(* wg.Wait) or where it calls a remote collaborator (storage, publisher).  *)
(* maxWaitTime is assumed positive: the timer case of the select is taken  *)
(* only when no other case is ready.                                       *)
(***************************************************************************)
EXTENDS Integers, Sequences, FiniteSets, TLC

\* ---------------------------------------------------------------- bounds
NumProducers == 2
MaxItems == 3
MaxImportLen == 2
MaxFlushTasks == 1
MaxCloseCalls == 2
MaxFailures == 1

\* configuration of the importer (importer.bufferSize, importer.maxWaitTime)
bufferSize == 3
maxWaitTime == 2

Sources == {"s1", "s2"}
Producers == 1..NumProducers

VARIABLES
    mutex,            \* activeImport.mutex: the goroutine holding the write lock
    stopped,          \* activeImport.stopped
    parentCancelled,  \* the ctx given to New has been cancelled
    itemChanClosed,   \* close(i.itemChan) has run
    itemBuffer,       \* activeImport.itemBuffer
    importedSources,  \* activeImport.importedSources
    importedHashes,   \* activeImport.importedHashes
    errors,           \* activeImport.errors
    wg,               \* counter of activeImport.wg
    schedPc,          \* position of the goroutine started by run
    producers,        \* the goroutines calling Import
    bufferTasks,      \* goroutines started by "go i.buffer(item)"
    flushTasks,       \* number of goroutines started by "go i.flush()"
    closeCalls,       \* number of calls of Close made by callers
    drainer,          \* a caller of Drain
    reader,           \* a caller of Err, ImportErrors, Closed or ImportedHashes
    persist,          \* the persistItems call in progress (under the lock)
    calls,            \* history: storage and publisher calls issued, each with
                      \* the number of the batch persistItems was given
    batches,          \* history: batches handed to persistItems
    nextId,           \* history: identity of the next record given to Import
    returned,         \* history: records of Import calls that returned nil
    closeRets,        \* history: completed Close calls: what they returned, and
                      \* the records accepted before they took the mutex
    panicked,         \* the process panicked (send on / close of closed channel)
    failures,         \* number of failures of storage or publisher injected so far
    timer,            \* time since the select of the scheduler loop was entered
    bufAge            \* time since the oldest record of itemBuffer was appended

sessVars == <<itemBuffer, importedSources, importedHashes, errors>>
lockVars == <<mutex, wg, bufferTasks, flushTasks, schedPc, stopped,
              itemChanClosed, closeRets, panicked>>
histVars == <<calls, batches, nextId, returned, failures>>
vars == <<mutex, stopped, parentCancelled, itemChanClosed, itemBuffer,
          importedSources, importedHashes, errors, wg, schedPc, producers,
          bufferTasks, flushTasks, closeCalls, drainer, reader, persist, calls, batches,
          nextId, returned, closeRets, panicked, failures, timer, bufAge>>

\* ---------------------------------------------------------------- helpers
T(kind, n) == [kind |-> kind, n |-> n]
Free == T("none", 0)
SchedT == T("sched", 0)
CloserT == T("closer", 0)
FlushT == T("flush", 0)

Range(s) == {s[k] : k \in 1..Len(s)}
Ids(s) == {s[k].id : k \in 1..Len(s)}

RECURSIVE Flatten(_)
Flatten(ss) == IF ss = <<>> THEN <<>> ELSE Head(ss).items \o Flatten(Tail(ss))

\* the i.ctx of the session: derived from the parent, cancelled by i.stop()
CtxDone == parentCancelled \/ stopped

NoPersist == [owner |-> Free, items |-> <<>>, sources |-> <<>>, step |-> "none"]

\* ---------------------------------------------------------------- persistItems
\* the sources slice built by the loop of persistItems: the source keys of the
\* batch that are neither in importedSources nor already in the slice
RECURSIVE NewSources(_, _, _)
NewSources(items, imported, acc) ==
    IF items = <<>> THEN acc
    ELSE LET s == Head(items).source
         IN  NewSources(Tail(items), imported,
                        IF s \notin imported /\ s \notin Range(acc)
                        THEN Append(acc, s) ELSE acc)

\* the infoHashes slice built by the loop of persistItems
InfoHashes(items) == [k \in 1..Len(items) |-> items[k].hash]

\* the outcomes a remote call may have: failures of the collaborators are
\* injected at most MaxFailures times
Outcomes == IF failures < MaxFailures THEN {TRUE, FALSE} ELSE {TRUE}

\* a storage call made WithContext(i.ctx): database/sql refuses a cancelled
\* context, otherwise the call succeeds or fails as the database decides
StorageErr(ok, failure) ==
    IF CtxDone THEN "context canceled" ELSE IF ok THEN "" ELSE failure

\* Close without the check of i.stopped: every call closes the channel
CloseTail_NoStoppedCheck(o, errs) ==
    /\ stopped' = TRUE
    /\ itemChanClosed' = TRUE
    /\ panicked' = (panicked \/ itemChanClosed)
    /\ closeRets' = Append(closeRets, [by |-> o.kind, ret |-> errs, snap |-> returned])
    /\ mutex' = Free

\* what a goroutine does after its flushLocked call returned, up to the
\* release of the mutex; errs is i.errors at that point
CloseTail(o, errs) ==
    /\ stopped' = TRUE
    /\ itemChanClosed' = TRUE
    /\ panicked' = (panicked \/ (~stopped /\ itemChanClosed))
    /\ closeRets' = Append(closeRets, [by |-> o.kind, ret |-> errs, snap |-> returned])
    /\ mutex' = Free

AfterFlush(o, errs) ==
    CASE o.kind = "buf" ->
            /\ wg' = wg - 1
            /\ bufferTasks' = {t \in bufferTasks : t.item.id # o.n}
            /\ mutex' = Free
            /\ UNCHANGED <<flushTasks, schedPc, stopped, itemChanClosed,
                           closeRets, panicked>>
      [] o.kind = "flush" ->
            /\ flushTasks' = flushTasks - 1
            /\ mutex' = Free
            /\ UNCHANGED <<wg, bufferTasks, schedPc, stopped,
                           itemChanClosed, closeRets, panicked>>
      [] o.kind = "closer" ->
            /\ CloseTail(o, errs)
            /\ UNCHANGED <<wg, bufferTasks, flushTasks, schedPc>>
      [] o.kind = "sched" ->
            /\ CloseTail(o, errs)
            /\ schedPc' = "exited"
            /\ UNCHANGED <<wg, bufferTasks, flushTasks>>

\* flushLocked called by goroutine o, which holds the mutex, with buf as the
\* contents of i.itemBuffer: an empty buffer returns at once, otherwise the
\* buffer is handed to persistItems, whose loop runs before its first call
FlushLocked(o, buf) ==
    IF buf = <<>>
    THEN /\ itemBuffer' = buf
         /\ AfterFlush(o, errors)
         /\ UNCHANGED <<persist, batches, errors, bufAge>>
    ELSE /\ itemBuffer' = buf
         /\ LET src == NewSources(buf, importedSources, <<>>)
            IN  persist' = [owner |-> o, items |-> buf, sources |-> src,
                            step |-> IF Len(src) > 0 THEN "sources" ELSE "torrents"]
         /\ batches' = Append(batches, [items |-> buf, by |-> o.kind])
         /\ mutex' = o
         /\ UNCHANGED <<wg, bufferTasks, flushTasks, schedPc, stopped,
                        itemChanClosed, closeRets, panicked, errors, bufAge>>

\* flushLocked without the replacement of the buffer
FinishFlush_NoReset(err) ==
    LET errs == IF err # ""
                THEN Append(errors, [Items |-> persist.items, Err |-> err])
                ELSE errors
    IN  /\ errors' = errs
        /\ itemBuffer' = persist.items
        /\ bufAge' = 0
        /\ persist' = NoPersist
        /\ AfterFlush(persist.owner, errs)

\* flushLocked keeping the records of a failed batch in the buffer
FinishFlush_Requeue(err) ==
    LET errs == IF err # ""
                THEN Append(errors, [Items |-> persist.items, Err |-> err])
                ELSE errors
    IN  /\ errors' = errs
        /\ itemBuffer' = IF err # "" THEN persist.items ELSE <<>>
        /\ bufAge' = 0
        /\ persist' = NoPersist
        /\ AfterFlush(persist.owner, errs)

\* the rest of flushLocked once persistItems returned err ("" is nil)
FinishFlush(err) ==
    LET errs == IF err # ""
                THEN Append(errors, [Items |-> persist.items, Err |-> err])
                ELSE errors
    IN  /\ errors' = errs
        /\ itemBuffer' = <<>>
        /\ bufAge' = 0
        /\ persist' = NoPersist
        /\ AfterFlush(persist.owner, errs)

\* persistItems marking the keys before it looks at createSourcesErr
CreateSources_MarkOnFailure ==
    /\ ~panicked
    /\ persist.step = "sources"
    /\ \E ok \in Outcomes :
        LET err == StorageErr(ok, "create sources failed")
        IN  /\ failures' = IF err = "create sources failed" THEN failures + 1 ELSE failures
            /\ calls' = Append(calls, [op |-> "CreateSources", keys |-> persist.sources,
                                       ok |-> (err = ""), batch |-> Len(batches)])
            /\ importedSources' = importedSources \cup Range(persist.sources)
            /\ IF err = ""
               THEN /\ persist' = [persist EXCEPT !.step = "torrents"]
                    /\ UNCHANGED <<itemBuffer, errors, bufAge, importedHashes>>
                    /\ UNCHANGED lockVars
               ELSE /\ FinishFlush(err)
                    /\ UNCHANGED importedHashes
    /\ UNCHANGED <<parentCancelled, producers, drainer, reader, closeCalls, batches, nextId, returned, timer>>

\* persistItems without the loop that marks the inserted keys
CreateSources_NoMark ==
    /\ ~panicked
    /\ persist.step = "sources"
    /\ \E ok \in Outcomes :
        LET err == StorageErr(ok, "create sources failed")
        IN  /\ failures' = IF err = "create sources failed" THEN failures + 1 ELSE failures
            /\ calls' = Append(calls, [op |-> "CreateSources", keys |-> persist.sources,
                                       ok |-> (err = ""), batch |-> Len(batches)])
            /\ IF err = ""
               THEN /\ persist' = [persist EXCEPT !.step = "torrents"]
                    /\ UNCHANGED <<itemBuffer, errors, bufAge, importedHashes>>
                    /\ UNCHANGED lockVars
               ELSE /\ FinishFlush(err)
                    /\ UNCHANGED importedHashes
            /\ UNCHANGED importedSources
    /\ UNCHANGED <<parentCancelled, producers, drainer, reader, closeCalls, batches, nextId, returned, timer>>

\* persistItems, the TorrentSource CreateInBatches with OnConflict DoNothing
CreateSources ==
    /\ ~panicked
    /\ persist.step = "sources"
    /\ \E ok \in Outcomes :
        LET err == StorageErr(ok, "create sources failed")
        IN  /\ failures' = IF err = "create sources failed" THEN failures + 1 ELSE failures
            /\ calls' = Append(calls, [op |-> "CreateSources", keys |-> persist.sources,
                                       ok |-> (err = ""), batch |-> Len(batches)])
            /\ IF err = ""
               THEN /\ importedSources' = importedSources \cup Range(persist.sources)
                    /\ persist' = [persist EXCEPT !.step = "torrents"]
                    /\ UNCHANGED <<itemBuffer, errors, bufAge, importedHashes>>
                    /\ UNCHANGED lockVars
               ELSE /\ FinishFlush(err)
                    /\ UNCHANGED <<importedSources, importedHashes>>
    /\ UNCHANGED <<parentCancelled, producers, drainer, reader, closeCalls, batches, nextId, returned, timer>>

\* persistItems taking the marks of the batch back when the upsert fails
CreateTorrents_Unmark ==
    /\ ~panicked
    /\ persist.step = "torrents"
    /\ \E ok \in Outcomes :
        LET err == StorageErr(ok, "create torrents failed")
        IN  /\ failures' = IF err = "create torrents failed" THEN failures + 1 ELSE failures
            /\ calls' = Append(calls, [op |-> "CreateTorrents",
                                       keys |-> InfoHashes(persist.items),
                                       ok |-> (err = ""), batch |-> Len(batches)])
            /\ IF err = ""
               THEN /\ persist' = [persist EXCEPT !.step = "publish"]
                    /\ UNCHANGED <<itemBuffer, errors, bufAge, importedSources>>
                    /\ UNCHANGED lockVars
               ELSE /\ FinishFlush(err)
                    /\ importedSources' = importedSources \ Range(persist.sources)
    /\ UNCHANGED importedHashes
    /\ UNCHANGED <<parentCancelled, producers, drainer, reader, closeCalls, batches, nextId, returned, timer>>

\* persistItems, the Torrent CreateInBatches with OnConflict UpdateAll
CreateTorrents ==
    /\ ~panicked
    /\ persist.step = "torrents"
    /\ \E ok \in Outcomes :
        LET err == StorageErr(ok, "create torrents failed")
        IN  /\ failures' = IF err = "create torrents failed" THEN failures + 1 ELSE failures
            /\ calls' = Append(calls, [op |-> "CreateTorrents",
                                       keys |-> InfoHashes(persist.items),
                                       ok |-> (err = ""), batch |-> Len(batches)])
            /\ IF err = ""
               THEN /\ persist' = [persist EXCEPT !.step = "publish"]
                    /\ UNCHANGED <<itemBuffer, errors, bufAge>>
                    /\ UNCHANGED lockVars
               ELSE FinishFlush(err)
    /\ UNCHANGED <<importedSources, importedHashes>>
    /\ UNCHANGED <<parentCancelled, producers, drainer, reader, closeCalls, batches, nextId, returned, timer>>

\* persistItems appending the fingerprints before it looks at publishErr
Publish_AppendAlways ==
    /\ ~panicked
    /\ persist.step = "publish"
    /\ \E ok \in Outcomes :
        /\ failures' = IF ok THEN failures ELSE failures + 1
        /\ calls' = Append(calls, [op |-> "Publish", keys |-> InfoHashes(persist.items),
                                   ok |-> ok, batch |-> Len(batches)])
        /\ importedHashes' = importedHashes \o InfoHashes(persist.items)
        /\ FinishFlush(IF ok THEN "" ELSE "publish failed")
    /\ UNCHANGED importedSources
    /\ UNCHANGED <<parentCancelled, producers, drainer, reader, closeCalls, batches, nextId, returned, timer>>

\* persistItems putting the fingerprints of the batch in front of the list
Publish_Prepend ==
    /\ ~panicked
    /\ persist.step = "publish"
    /\ \E ok \in Outcomes :
        /\ failures' = IF ok THEN failures ELSE failures + 1
        /\ calls' = Append(calls, [op |-> "Publish", keys |-> InfoHashes(persist.items),
                                   ok |-> ok, batch |-> Len(batches)])
        /\ importedHashes' = IF ok THEN InfoHashes(persist.items) \o importedHashes
                             ELSE importedHashes
        /\ FinishFlush(IF ok THEN "" ELSE "publish failed")
    /\ UNCHANGED importedSources
    /\ UNCHANGED <<parentCancelled, producers, drainer, reader, closeCalls, batches, nextId, returned, timer>>

\* persistItems, processorPublisher.Publish and the append to importedHashes
\* (the publisher decides whether it succeeds, also under a cancelled context)
Publish ==
    /\ ~panicked
    /\ persist.step = "publish"
    /\ \E ok \in Outcomes :
        /\ failures' = IF ok THEN failures ELSE failures + 1
        /\ calls' = Append(calls, [op |-> "Publish", keys |-> InfoHashes(persist.items),
                                   ok |-> ok, batch |-> Len(batches)])
        /\ importedHashes' = IF ok THEN importedHashes \o InfoHashes(persist.items)
                             ELSE importedHashes
        /\ FinishFlush(IF ok THEN "" ELSE "publish failed")
    /\ UNCHANGED importedSources
    /\ UNCHANGED <<parentCancelled, producers, drainer, reader, closeCalls, batches, nextId, returned, timer>>

\* ---------------------------------------------------------------- the scheduler (run)
\* run holds the mutex until its goroutine has set i.ctx and i.stop
SchedStart ==
    /\ ~panicked
    /\ schedPc = "start"
    /\ schedPc' = "select"
    /\ mutex' = Free
    /\ timer' = 0
    /\ UNCHANGED <<stopped, parentCancelled, itemChanClosed, wg, producers, bufferTasks,
                   flushTasks, closeCalls, drainer, reader, persist, closeRets, panicked, bufAge>>
    /\ UNCHANGED sessVars /\ UNCHANGED histVars

SomeoneSending == \E p \in Producers : producers[p].pc = "send"

\* case <-iCtx.Done(): the scheduler calls Close, which starts with mutex.Lock
SchedDone ==
    /\ ~panicked
    /\ schedPc = "select"
    /\ CtxDone
    /\ schedPc' = "close"
    /\ UNCHANGED <<mutex, stopped, parentCancelled, itemChanClosed, wg, producers,
                   bufferTasks, flushTasks, closeCalls, drainer, reader, persist, closeRets,
                   panicked, timer, bufAge>>
    /\ UNCHANGED sessVars /\ UNCHANGED histVars

\* case item, ok := <-i.itemChan with ok false: return (the deferred cancel
\* finds the context cancelled already, the channel is closed only by Close)
SchedChanClosed ==
    /\ ~panicked
    /\ schedPc = "select"
    /\ itemChanClosed
    /\ schedPc' = "exited"
    /\ UNCHANGED <<mutex, stopped, parentCancelled, itemChanClosed, wg, producers,
                   bufferTasks, flushTasks, closeCalls, drainer, reader, persist, closeRets,
                   panicked, timer, bufAge>>
    /\ UNCHANGED sessVars /\ UNCHANGED histVars

\* case <-time.After(i.maxWaitTime): go i.flush(), then the next iteration
\* makes a new timer
SchedTimeout ==
    /\ ~panicked
    /\ schedPc = "select"
    /\ ~CtxDone /\ ~itemChanClosed /\ ~SomeoneSending
    /\ flushTasks < MaxFlushTasks
    /\ flushTasks' = flushTasks + 1
    /\ timer' = 0
    /\ UNCHANGED <<mutex, stopped, parentCancelled, itemChanClosed, wg, schedPc, producers,
                   bufferTasks, closeCalls, drainer, reader, persist, closeRets, panicked, bufAge>>
    /\ UNCHANGED sessVars /\ UNCHANGED histVars

\* the scheduler's Close once it has the mutex: flushLocked and the rest
SchedClose ==
    /\ ~panicked
    /\ schedPc = "close"
    /\ mutex = Free
    /\ FlushLocked(SchedT, itemBuffer)
    /\ UNCHANGED <<parentCancelled, producers, drainer, reader, closeCalls, calls, nextId,
                   returned, failures, importedSources, importedHashes, timer>>

\* ---------------------------------------------------------------- Import
\* Item.InfoHash: the fingerprint is the identity of the discovered item
InfoHash(id) == id + 100

\* Import without the check of i.stopped
Import_NoStoppedCheck(p, args) ==
    /\ ~panicked
    /\ producers[p].pc = "idle"
    /\ mutex = Free
    /\ producers' = [producers EXCEPT ![p] =
            [pc |-> "send", args |-> args, sent |-> 0, res |-> "none"]]
    /\ mutex' = T("prod", p)
    /\ nextId' = nextId + Len(args)
    /\ UNCHANGED <<stopped, parentCancelled, itemChanClosed, wg, schedPc, bufferTasks,
                   flushTasks, closeCalls, drainer, reader, persist, calls, batches, returned,
                   closeRets, panicked, failures, timer, bufAge>>
    /\ UNCHANGED sessVars

\* a call Import(args...) up to its first send: mutex.Lock, the check of
\* i.stopped, and the return of a call without items
Import(p, args) ==
    /\ ~panicked
    /\ producers[p].pc = "idle"
    /\ mutex = Free
    /\ IF stopped
       THEN /\ producers' = [producers EXCEPT ![p].res = "closed"]
            /\ UNCHANGED <<mutex, nextId>>
       ELSE IF args = <<>>
       THEN /\ producers' = [producers EXCEPT ![p].res = "nil"]
            /\ UNCHANGED <<mutex, nextId>>
       ELSE /\ producers' = [producers EXCEPT ![p] =
                    [pc |-> "send", args |-> args, sent |-> 0, res |-> "none"]]
            /\ mutex' = T("prod", p)
            /\ nextId' = nextId + Len(args)
    /\ UNCHANGED <<stopped, parentCancelled, itemChanClosed, wg, schedPc, bufferTasks,
                   flushTasks, closeCalls, drainer, reader, persist, calls, batches, returned,
                   closeRets, panicked, failures, timer, bufAge>>
    /\ UNCHANGED sessVars

\* the arguments a producer may give to Import: 1 to MaxImportLen new records
\* (the source names are interchangeable: the first record names "s1")
ImportArgs ==
    UNION {{[k \in 1..n |-> [id |-> nextId + k - 1, source |-> src[k],
                             hash |-> InfoHash(nextId + k - 1)]] :
               src \in {f \in [1..n -> Sources] : nextId = 1 => f[1] = "s1"}} :
           n \in {m \in 1..MaxImportLen : nextId + m - 1 <= MaxItems}}

\* i.itemChan <- item meeting the receive of the scheduler's select, which
\* starts "go i.buffer(item)" and loops; after the last item Import unlocks
\* and returns nil. A send on the closed channel panics.
ImportSend(p) ==
    /\ ~panicked
    /\ producers[p].pc = "send"
    /\ itemChanClosed \/ schedPc = "select"
    /\ IF itemChanClosed
       THEN /\ panicked' = TRUE
            /\ UNCHANGED <<producers, bufferTasks, mutex, returned, timer>>
       ELSE LET k == producers[p].sent + 1
                last == (k = Len(producers[p].args))
            IN  /\ bufferTasks' = bufferTasks \cup
                        {[item |-> producers[p].args[k], pc |-> "spawned"]}
                /\ timer' = 0
                /\ producers' = [producers EXCEPT ![p] =
                        IF last
                        THEN [pc |-> "idle", args |-> <<>>, sent |-> 0, res |-> "nil"]
                        ELSE [@ EXCEPT !.sent = k]]
                /\ mutex' = IF last THEN Free ELSE mutex
                /\ returned' = IF last THEN returned \cup Ids(producers[p].args)
                               ELSE returned
                /\ UNCHANGED panicked
    /\ UNCHANGED <<stopped, parentCancelled, itemChanClosed, wg, schedPc, flushTasks,
                   closeCalls, drainer, reader, persist, calls, batches, nextId, closeRets,
                   failures, bufAge>>
    /\ UNCHANGED sessVars

\* ---------------------------------------------------------------- buffer, flush
\* the first statement of the goroutine started by "go i.buffer(item)"
BufferAdd(t) ==
    /\ ~panicked
    /\ t \in bufferTasks
    /\ t.pc = "spawned"
    /\ wg' = wg + 1
    /\ bufferTasks' = (bufferTasks \ {t}) \cup {[t EXCEPT !.pc = "lock"]}
    /\ UNCHANGED <<mutex, stopped, parentCancelled, itemChanClosed, schedPc, producers,
                   flushTasks, closeCalls, drainer, reader, persist, closeRets, panicked, timer, bufAge>>
    /\ UNCHANGED sessVars /\ UNCHANGED histVars

\* buffer appending without taking the mutex
BufferLock_NoLock(t) ==
    /\ ~panicked
    /\ t \in bufferTasks
    /\ t.pc = "lock"
    /\ LET buf == Append(itemBuffer, t.item)
       IN  IF Len(buf) >= bufferSize
           THEN FlushLocked(T("buf", t.item.id), buf)
           ELSE /\ itemBuffer' = buf
                /\ AfterFlush(T("buf", t.item.id), errors)
                /\ UNCHANGED <<persist, batches, errors, bufAge>>
    /\ UNCHANGED <<parentCancelled, producers, drainer, reader, closeCalls, calls, nextId,
                   returned, failures, importedSources, importedHashes, timer>>

\* buffer flushing only above the threshold (> for >=)
BufferLock_OffByOne(t) ==
    /\ ~panicked
    /\ t \in bufferTasks
    /\ t.pc = "lock"
    /\ mutex = Free
    /\ LET buf == Append(itemBuffer, t.item)
       IN  IF Len(buf) > bufferSize
           THEN FlushLocked(T("buf", t.item.id), buf)
           ELSE /\ itemBuffer' = buf
                /\ AfterFlush(T("buf", t.item.id), errors)
                /\ UNCHANGED <<persist, batches, errors, bufAge>>
    /\ UNCHANGED <<parentCancelled, producers, drainer, reader, closeCalls, calls, nextId,
                   returned, failures, importedSources, importedHashes, timer>>

\* buffer flushing after every append
BufferLock_FlushAlways(t) ==
    /\ ~panicked
    /\ t \in bufferTasks
    /\ t.pc = "lock"
    /\ mutex = Free
    /\ FlushLocked(T("buf", t.item.id), Append(itemBuffer, t.item))
    /\ UNCHANGED <<parentCancelled, producers, drainer, reader, closeCalls, calls, nextId,
                   returned, failures, importedSources, importedHashes, timer>>

\* buffer once it has the mutex: the append and, at the threshold, flushLocked
BufferLock(t) ==
    /\ ~panicked
    /\ t \in bufferTasks
    /\ t.pc = "lock"
    /\ mutex = Free
    /\ LET buf == Append(itemBuffer, t.item)
       IN  IF Len(buf) >= bufferSize
           THEN FlushLocked(T("buf", t.item.id), buf)
           ELSE /\ itemBuffer' = buf
                /\ AfterFlush(T("buf", t.item.id), errors)
                /\ UNCHANGED <<persist, batches, errors, bufAge>>
    /\ UNCHANGED <<parentCancelled, producers, drainer, reader, closeCalls, calls, nextId,
                   returned, failures, importedSources, importedHashes, timer>>

\* flush, started by the timeout, once it has the mutex
FlushLock ==
    /\ ~panicked
    /\ flushTasks > 0
    /\ mutex = Free
    /\ FlushLocked(FlushT, itemBuffer)
    /\ UNCHANGED <<parentCancelled, producers, drainer, reader, closeCalls, calls, nextId,
                   returned, failures, importedSources, importedHashes, timer>>

\* ---------------------------------------------------------------- Close, Drain
\* a call of Close once it has the mutex: flushLocked and the rest
Close ==
    /\ ~panicked
    /\ closeCalls < MaxCloseCalls
    /\ mutex = Free
    /\ closeCalls' = closeCalls + 1
    /\ FlushLocked(CloserT, itemBuffer)
    /\ UNCHANGED <<parentCancelled, producers, drainer, reader, calls, nextId,
                   returned, failures, importedSources, importedHashes, timer>>

\* a call of Drain: wg.Wait returns when the counter is zero
Drain ==
    /\ ~panicked
    /\ ~drainer.returned
    /\ wg = 0
    /\ drainer' = [returned |-> TRUE, snap |-> returned]
    /\ UNCHANGED reader
    /\ UNCHANGED <<mutex, stopped, parentCancelled, itemChanClosed, wg, schedPc, producers,
                   bufferTasks, flushTasks, closeCalls, persist, closeRets, panicked,
                   timer, bufAge>>
    /\ UNCHANGED sessVars /\ UNCHANGED histVars

\* Err handing the error list over: it returns the list and empties it
Read_ErrClears(op) ==
    /\ ~panicked
    /\ reader.op = "none"
    /\ mutex = Free
    /\ reader' = [op |-> op,
                  val |-> CASE op = "Err" -> errors
                            [] op = "ImportErrors" -> errors
                            [] op = "Closed" -> stopped
                            [] op = "ImportedHashes" -> importedHashes]
    /\ errors' = IF op = "Err" THEN <<>> ELSE errors
    /\ UNCHANGED <<mutex, stopped, parentCancelled, itemChanClosed, wg, schedPc, producers,
                   bufferTasks, flushTasks, closeCalls, drainer, persist, closeRets, panicked,
                   timer, bufAge>>
    /\ UNCHANGED <<itemBuffer, importedSources, importedHashes>> /\ UNCHANGED histVars

\* a call of Err, ImportErrors, Closed or ImportedHashes: RLock (no goroutine
\* holds the write lock), the field is returned, RUnlock. Err returns
\* i.errors.OrNil(): the list itself, or nil for the empty list
Read(op) ==
    /\ ~panicked
    /\ reader.op = "none"
    /\ mutex = Free
    /\ reader' = [op |-> op,
                  val |-> CASE op = "Err" -> errors
                            [] op = "ImportErrors" -> errors
                            [] op = "Closed" -> stopped
                            [] op = "ImportedHashes" -> importedHashes]
    /\ UNCHANGED <<mutex, stopped, parentCancelled, itemChanClosed, wg, schedPc, producers,
                   bufferTasks, flushTasks, closeCalls, drainer, persist, closeRets, panicked,
                   timer, bufAge>>
    /\ UNCHANGED sessVars /\ UNCHANGED histVars

ReadOps == {"Err", "ImportErrors", "Closed", "ImportedHashes"}

\* ---------------------------------------------------------------- environment
\* the context given to New is cancelled
Cancel ==
    /\ ~panicked
    /\ ~parentCancelled
    /\ parentCancelled' = TRUE
    /\ UNCHANGED <<mutex, stopped, itemChanClosed, wg, schedPc, producers, bufferTasks,
                   flushTasks, closeCalls, drainer, reader, persist, closeRets, panicked,
                   timer, bufAge>>
    /\ UNCHANGED sessVars /\ UNCHANGED histVars

\* one unit of time passes while the scheduler waits in its select: no case
\* of the select is ready and its timer is not overdue
Tick ==
    /\ ~panicked
    /\ schedPc = "select"
    /\ ~CtxDone /\ ~itemChanClosed /\ ~SomeoneSending
    /\ timer < maxWaitTime
    /\ timer' = timer + 1
    /\ bufAge' = IF itemBuffer # <<>> /\ bufAge <= maxWaitTime THEN bufAge + 1 ELSE bufAge
    /\ UNCHANGED <<mutex, stopped, parentCancelled, itemChanClosed, wg, schedPc, producers,
                   bufferTasks, flushTasks, closeCalls, drainer, reader, persist, closeRets, panicked>>
    /\ UNCHANGED sessVars /\ UNCHANGED histVars

\* the timeout of the select taken when maxWaitTime has passed since the
\* select was entered
SchedTimeoutTimed == timer >= maxWaitTime /\ SchedTimeout

\* ---------------------------------------------------------------- specification
Init ==
    /\ mutex = SchedT
    /\ stopped = FALSE
    /\ parentCancelled = FALSE
    /\ itemChanClosed = FALSE
    /\ itemBuffer = <<>>
    /\ importedSources = {}
    /\ importedHashes = <<>>
    /\ errors = <<>>
    /\ wg = 0
    /\ schedPc = "start"
    /\ producers = [p \in Producers |->
                       [pc |-> "idle", args |-> <<>>, sent |-> 0, res |-> "none"]]
    /\ bufferTasks = {}
    /\ flushTasks = 0
    /\ closeCalls = 0
    /\ drainer = [returned |-> FALSE, snap |-> {}]
    /\ reader = [op |-> "none", val |-> <<>>]
    /\ persist = NoPersist
    /\ calls = <<>>
    /\ batches = <<>>
    /\ nextId = 1
    /\ returned = {}
    /\ closeRets = <<>>
    /\ panicked = FALSE
    /\ failures = 0
    /\ timer = 0
    /\ bufAge = 0

\* producers, callers of Close and a cancellable parent context; a panic
\* ends the process (no action is enabled once panicked)
Next ==
    \/ SchedStart
    \/ SchedDone
    \/ SchedChanClosed
    \/ SchedTimeout
    \/ SchedClose
    \/ \E p \in Producers, args \in ImportArgs : Import(p, args)
    \/ \E p \in Producers : ImportSend(p)
    \/ \E t \in bufferTasks : BufferAdd(t)
    \/ \E t \in bufferTasks : BufferLock(t)
    \/ FlushLock
    \/ CreateSources
    \/ CreateTorrents
    \/ Publish
    \/ Close
    \/ Cancel

Spec == Init /\ [][Next]_vars

\* producers, callers of Close and a caller of Drain
NextDrain ==
    \/ SchedStart
    \/ SchedDone
    \/ SchedChanClosed
    \/ SchedTimeout
    \/ SchedClose
    \/ \E p \in Producers, args \in ImportArgs : Import(p, args)
    \/ \E p \in Producers : ImportSend(p)
    \/ \E t \in bufferTasks : BufferAdd(t)
    \/ \E t \in bufferTasks : BufferLock(t)
    \/ FlushLock
    \/ CreateSources
    \/ CreateTorrents
    \/ Publish
    \/ Close
    \/ Drain

DrainSpec == Init /\ [][NextDrain]_vars

\* producers and callers of Close, with the passage of time deciding when
\* the timeout of the select is taken
NextTimed ==
    \/ SchedStart
    \/ SchedDone
    \/ SchedChanClosed
    \/ SchedTimeoutTimed
    \/ SchedClose
    \/ \E p \in Producers, args \in ImportArgs : Import(p, args)
    \/ \E p \in Producers : ImportSend(p)
    \/ \E t \in bufferTasks : BufferAdd(t)
    \/ \E t \in bufferTasks : BufferLock(t)
    \/ FlushLock
    \/ CreateSources
    \/ CreateTorrents
    \/ Publish
    \/ Close
    \/ Tick

TimedSpec == Init /\ [][NextTimed]_vars

\* producers, callers of Close and a caller of the read operations
NextRead ==
    \/ SchedStart
    \/ SchedDone
    \/ SchedChanClosed
    \/ SchedTimeout
    \/ SchedClose
    \/ \E p \in Producers, args \in ImportArgs : Import(p, args)
    \/ \E p \in Producers : ImportSend(p)
    \/ \E t \in bufferTasks : BufferAdd(t)
    \/ \E t \in bufferTasks : BufferLock(t)
    \/ FlushLock
    \/ CreateSources
    \/ CreateTorrents
    \/ Publish
    \/ Close
    \/ \E op \in ReadOps : Read(op)

ReadSpec == Init /\ [][NextRead]_vars

\* ---------------------------------------------------------------- derived history
\* records handed to persistItems so far, and records appended to itemBuffer so far
BatchedIds == Ids(Flatten(batches))
AppendedSeq == Flatten(batches) \o (IF persist.step = "none" THEN itemBuffer ELSE <<>>)
BufferedIds == Ids(AppendedSeq)
\* records the scheduler has received from itemChan
ReceivedIds == {t.item.id : t \in bufferTasks} \cup BufferedIds

\* a step of the session's own goroutines (not a new call by a caller, not
\* the cancellation of the parent, not the timer)
InternalStep ==
    \/ SchedStart
    \/ SchedDone
    \/ SchedChanClosed
    \/ SchedClose
    \/ \E p \in Producers : ImportSend(p)
    \/ \E t \in bufferTasks : BufferAdd(t)
    \/ \E t \in bufferTasks : BufferLock(t)
    \/ FlushLock
    \/ CreateSources
    \/ CreateTorrents
    \/ Publish

\* the calls persistItems issued for batch b, in order
CallsOf(b) == SelectSeq(calls, LAMBDA c : c.batch = b)
\* the entries of i.errors recorded for batch b (a record is in one batch only)
FailuresOf(b) == {e \in 1..Len(errors) : errors[e].Items = batches[b].items}
\* the source keys named by the records of a batch
SourceKeys(items) == {items[k].source : k \in 1..Len(items)}
\* what the calls that succeeded have written to storage
StoredSources == UNION {Range(calls[c].keys) :
                          c \in {d \in 1..Len(calls) : calls[d].op = "CreateSources" /\ calls[d].ok}}
StoredTorrents == UNION {Range(calls[c].keys) :
                           c \in {d \in 1..Len(calls) : calls[d].op = "CreateTorrents" /\ calls[d].ok}}

\* ---------------------------------------------------------------- claims

\* C1: when a call of Close returns, every record accepted by an Import call
\* that returned nil before that Close has been handed to the persister (it
\* is in a batch), so none is waiting outside the buffer or left in it.
C1_CloseHandsOverAccepted ==
    \A k \in 1..Len(closeRets) : closeRets[k].snap \subseteq BatchedIds

\* C2: after the parent context is cancelled the session reaches its final
\* state (closed, scheduler exited, no Import in progress) and until then a
\* goroutine of the session can always take a step: nothing blocks forever.
C2_CancelledSessionCloses ==
    parentCancelled =>
        \/ (stopped /\ schedPc = "exited" /\ ~SomeoneSending)
        \/ ENABLED InternalStep

\* C3: when Drain returns, every record accepted by an Import call that
\* returned nil before has been appended to the buffer (or flushed from it).
C3_DrainWaitsForBuffering ==
    drainer.returned => drainer.snap \subseteq BufferedIds

\* C4: a call of Close made when the session is closed already hands no
\* batch to the persister, and every call of Close returns the error state
\* the first call returned.
C4_CloseIdempotent ==
    /\ \A k \in 1..Len(closeRets) : closeRets[k].ret = closeRets[1].ret
    /\ ~(stopped /\ persist.owner.kind \in {"closer", "sched"})

\* C5: once a call of Close has completed, every Import call returns
\* ErrImportClosed without sending a record (it does not become a sender, no
\* buffering task appears) and leaves the buffer, the committed list, the
\* durable sources and the failure list unchanged.
C5_ImportAfterCloseRejected ==
    [][\A p \in Producers, args \in ImportArgs :
          (closeRets # <<>> /\ Import(p, args)) =>
              /\ producers'[p].res = "closed"
              /\ producers'[p].pc = "idle"
              /\ UNCHANGED <<itemBuffer, importedHashes, importedSources, errors,
                             bufferTasks, mutex>>]_vars

\* an Import call was rejected after a completed Close
C5_Witness ==
    closeRets # <<>> /\ \E p \in Producers : producers[p].res = "closed"

\* C6: every record accepted by an Import call that returned nil is appended
\* to the buffer exactly once: no record is appended twice, and while an
\* accepted record is not appended yet a goroutine of the session can take a
\* step (its buffering is not blocked forever).
C6_AcceptedBufferedOnce ==
    /\ \A i, j \in 1..Len(AppendedSeq) : AppendedSeq[i].id = AppendedSeq[j].id => i = j
    /\ (returned \ BufferedIds # {}) => ENABLED InternalStep

\* C7: when the buffer has been non-empty for more than maxWaitTime without
\* a flush, a timeout flush has been triggered (its goroutine is started or
\* the flush is in progress), whatever records arrive meanwhile.
C7_TimeoutNotStarved ==
    (itemBuffer # <<>> /\ bufAge > maxWaitTime) =>
        (flushTasks > 0 \/ persist.step # "none")

\* C8: when an append makes the buffer reach bufferSize, the whole buffer is
\* handed to the persister as one batch in the same critical section: a
\* buffer of bufferSize records is always the batch being persisted, under
\* the mutex of the appending goroutine, and every batch handed over by
\* buffer holds exactly bufferSize records.
C8_SizeTriggeredFlush ==
    /\ Len(itemBuffer) >= bufferSize =>
            /\ Len(itemBuffer) = bufferSize
            /\ persist.step # "none"
            /\ persist.items = itemBuffer
            /\ batches[Len(batches)].items = itemBuffer
            /\ persist.owner.kind = "buf"
            /\ mutex = persist.owner
    /\ \A k \in 1..Len(batches) :
            batches[k].by = "buf" => Len(batches[k].items) = bufferSize

\* buffer has handed a batch of bufferSize records to the persister
C8_Witness ==
    /\ persist.owner.kind = "buf"
    /\ Len(persist.items) = bufferSize
    /\ batches = <<[items |-> persist.items, by |-> "buf"]>>

\* C9: while fewer than bufferSize records have been accepted, a batch is
\* handed to the persister only by the flush goroutine that the timeout
\* starts or by Close (of a caller, or of the scheduler on cancellation).
C9_NoFlushBelowThreshold ==
    Cardinality(ReceivedIds) < bufferSize =>
        \A k \in 1..Len(batches) : batches[k].by \in {"flush", "closer", "sched"}

\* below the threshold: records wait in the buffer with no batch handed
\* over, although the scheduler has looped
C9_Witness ==
    /\ Len(itemBuffer) = bufferSize - 1
    /\ bufferTasks = {}
    /\ batches = <<>>
    /\ schedPc = "select"
    /\ mutex = Free

\* C10: a batch failure does not stop ingestion. The step that records a
\* failure leaves the buffer empty (the records are not put back); when the
\* flush was made by buffer or by the timeout's flush, the scheduler stays
\* where it is, the session stays open and the mutex is released.
C10_FailureDoesNotStopIngestion ==
    [][Len(errors') > Len(errors) =>
          /\ itemBuffer' = <<>>
          /\ persist' = NoPersist
          /\ persist.owner.kind \in {"buf", "flush"} =>
                /\ schedPc' = schedPc
                /\ stopped' = stopped
                /\ itemChanClosed' = itemChanClosed
                /\ mutex' = Free]_vars

\* after a failed batch, a later batch was committed while the session runs
C10_Witness ==
    /\ Len(errors) = 1
    /\ errors[1].Err # "context canceled"
    /\ Len(batches) = 2
    /\ importedHashes = InfoHashes(batches[2].items)
    /\ ~stopped
    /\ schedPc = "select"

\* C11: when Publish fails for a batch, the calls of the batch end there (the
\* source insert, when one was needed, and the torrent upsert succeeded and
\* nothing undoes them: the keys stay stored and marked), exactly one failure
\* entry is recorded whose Items are the records of the batch, and no
\* fingerprint of the batch is in the committed list.
C11_PublishFailureIsolated ==
    \A c \in 1..Len(calls) :
        (calls[c].op = "Publish" /\ ~calls[c].ok) =>
            LET b == calls[c].batch
                cs == CallsOf(b)
                n == Len(cs)
            IN  /\ cs[n] = calls[c]
                /\ cs[n - 1].op = "CreateTorrents" /\ cs[n - 1].ok
                /\ \A k \in 1..(n - 2) : cs[k].op = "CreateSources" /\ cs[k].ok
                /\ SourceKeys(batches[b].items) \subseteq (StoredSources \cap importedSources)
                /\ Range(InfoHashes(batches[b].items)) \subseteq StoredTorrents
                /\ Cardinality(FailuresOf(b)) = 1
                /\ \A e \in FailuresOf(b) : errors[e].Err = "publish failed"
                /\ Range(InfoHashes(batches[b].items)) \cap Range(importedHashes) = {}

\* Publish failed for a batch whose source insert and torrent upsert succeeded
C11_Witness ==
    /\ Len(calls) = 3
    /\ calls[1].op = "CreateSources" /\ calls[1].ok
    /\ calls[2].op = "CreateTorrents" /\ calls[2].ok
    /\ calls[3].op = "Publish" /\ ~calls[3].ok
    /\ Len(errors) = 1
    /\ persist = NoPersist

\* C12: after a source insert containing a key has succeeded, no later
\* source insert of the session contains that key; a source insert names each
\* key once and is never empty; a batch issues at most one source insert, and
\* none when every source key of its records was inserted successfully before.
C12_SourceInsertedOnce ==
    LET SrcCalls == {c \in 1..Len(calls) : calls[c].op = "CreateSources"}
    IN  /\ \A c, d \in SrcCalls :
              (c < d /\ calls[c].ok) => Range(calls[c].keys) \cap Range(calls[d].keys) = {}
        /\ \A c \in SrcCalls :
              /\ calls[c].keys # <<>>
              /\ \A i, j \in 1..Len(calls[c].keys) :
                    calls[c].keys[i] = calls[c].keys[j] => i = j
        /\ \A c, d \in SrcCalls : calls[c].batch = calls[d].batch => c = d
        /\ \A b \in 1..Len(batches) :
              LET before == UNION {Range(calls[c].keys) :
                                     c \in {d \in SrcCalls : calls[d].ok /\ calls[d].batch < b}}
              IN  SourceKeys(batches[b].items) \subseteq before =>
                      \A c \in SrcCalls : calls[c].batch # b

\* two batches naming the same source were persisted with one source insert
C12_Witness ==
    /\ Len(batches) = 2
    /\ persist = NoPersist
    /\ "s1" \in SourceKeys(batches[1].items) \cap SourceKeys(batches[2].items)
    /\ Len(calls) = 5
    /\ calls[1].op = "CreateSources" /\ calls[1].ok /\ calls[1].batch = 1
    /\ \A c \in 2..5 : calls[c].op # "CreateSources" /\ calls[c].ok
    /\ calls[5].batch = 2

\* the batches for which persistItems returned nil
CommittedBatches ==
    {b \in 1..Len(batches) :
        \E c \in 1..Len(calls) : calls[c].batch = b /\ calls[c].op = "Publish" /\ calls[c].ok}

\* C13 as stated: a source key is marked durable only on full success of its
\* batch. When no batch is being persisted, every key of importedSources was
\* inserted by a batch whose torrent upsert and Publish succeeded as well.
C13_MarkedOnlyOnFullSuccess ==
    persist.step = "none" =>
        importedSources \subseteq
            UNION {Range(calls[c].keys) :
                     c \in {d \in 1..Len(calls) : /\ calls[d].op = "CreateSources"
                                                  /\ calls[d].batch \in CommittedBatches}}

\* C13 amended: a source key is marked durable exactly when the source insert
\* containing it has succeeded. importedSources is the set of keys of the
\* successful source inserts; a batch whose torrent upsert or Publish failed
\* afterwards keeps its keys marked, a failed source insert marks nothing.
C13_MarkedOnInsertSuccess ==
    /\ importedSources = StoredSources
    /\ \A c \in 1..Len(calls) :
          (calls[c].op \in {"CreateTorrents", "Publish"} /\ ~calls[c].ok) =>
              SourceKeys(batches[calls[c].batch].items) \subseteq importedSources

\* the torrent upsert failed for the batch that inserted the marked key
C13_Witness ==
    /\ Len(calls) = 2
    /\ calls[1].op = "CreateSources" /\ calls[1].ok
    /\ calls[2].op = "CreateTorrents" /\ ~calls[2].ok
    /\ persist = NoPersist
    /\ importedSources = Range(calls[1].keys)
    /\ importedHashes = <<>>

\* the fingerprints of the committed batches among the first n batches, in
\* the order the batches were handed to persistItems
RECURSIVE CommittedHashes(_)
CommittedHashes(n) ==
    IF n = 0 THEN <<>>
    ELSE CommittedHashes(n - 1) \o
         (IF n \in CommittedBatches THEN InfoHashes(batches[n].items) ELSE <<>>)

\* C14: in every reachable state importedHashes, which ImportedHashes
\* returns, is the concatenation, in the order the batches were flushed, of
\* the fingerprints of the batches whose source insert, torrent upsert and
\* Publish all succeeded; a batch with a failed call contributes nothing.
C14_CommittedInFlushOrder ==
    /\ importedHashes = CommittedHashes(Len(batches))
    /\ \A c \in 1..Len(calls) :
          ~calls[c].ok =>
              /\ calls[c].batch \notin CommittedBatches
              /\ Range(InfoHashes(batches[calls[c].batch].items)) \cap
                     Range(importedHashes) = {}

\* a committed batch, a failed batch and another committed batch
C14_Witness ==
    /\ Len(batches) = 3
    /\ CommittedBatches = {1, 3}
    /\ Len(errors) = 1
    /\ importedHashes = InfoHashes(batches[1].items) \o InfoHashes(batches[3].items)

Prefix(a, b) == Len(a) <= Len(b) /\ SubSeq(b, 1, Len(a)) = a

\* C15: the committed list and the failure list are append-only. Every step
\* leaves the previous contents of both as a prefix; a step of Err,
\* ImportErrors, Closed or ImportedHashes changes neither list; Close returns
\* the failure list as it is after its flush and does not clear it.
C15_ListsAppendOnly ==
    [][/\ Prefix(errors, errors')
       /\ Prefix(importedHashes, importedHashes')
       /\ reader' # reader => UNCHANGED <<errors, importedHashes>>
       /\ Len(closeRets') > Len(closeRets) =>
              closeRets'[Len(closeRets')].ret = errors']_vars

\* Err returned a failure, and the list has grown behind it since
C15_Witness ==
    /\ reader.op = "Err"
    /\ Len(reader.val) = 1
    /\ Len(errors) = 2
    /\ Prefix(reader.val, errors)
    /\ closeRets # <<>>

\* a key of a failed source insert is asked for again: the first later batch
\* naming the key has it in its source insert (issued, or about to be)
SourceInsertRetried ==
    \A c \in 1..Len(calls) :
        (calls[c].op = "CreateSources" /\ ~calls[c].ok) =>
            \A s \in Range(calls[c].keys) :
                LET later == {b \in (calls[c].batch + 1)..Len(batches) :
                                s \in SourceKeys(batches[b].items)}
                IN  \A b \in later :
                        (\A b2 \in later : b <= b2) =>
                            \/ \E d \in 1..Len(calls) :
                                  /\ calls[d].batch = b
                                  /\ calls[d].op = "CreateSources"
                                  /\ s \in Range(calls[d].keys)
                            \/ /\ b = Len(batches)
                               /\ persist.step = "sources"
                               /\ s \in Range(persist.sources)

\* C16: when the source insert of a batch fails, the batch ends there: it is
\* the only call of the batch (no torrent upsert, no Publish), the step marks
\* no key durable, leaves the committed list unchanged and records one
\* failure entry holding the whole batch; the next batch naming a key of the
\* failed insert issues the source insert for it again.
C16_SourceFailureAbortsBatch ==
    [][/\ (/\ Len(calls') = Len(calls) + 1
           /\ calls'[Len(calls')].op = "CreateSources"
           /\ ~calls'[Len(calls')].ok) =>
              /\ importedSources' = importedSources
              /\ Range(persist.sources) \cap importedSources' = {}
              /\ importedHashes' = importedHashes
              /\ Len(errors') = Len(errors) + 1
              /\ errors'[Len(errors')].Items = persist.items
              /\ persist' = NoPersist
       /\ \A c \in 1..Len(calls') :
              (calls'[c].op = "CreateSources" /\ ~calls'[c].ok) =>
                  \A d \in 1..Len(calls') : calls'[d].batch = calls'[c].batch => d = c
       /\ SourceInsertRetried']_vars

\* a source insert failed and the next batch naming the key inserted it again
C16_Witness ==
    /\ Len(batches) = 2
    /\ Len(calls) >= 2
    /\ calls[1].op = "CreateSources" /\ ~calls[1].ok /\ calls[1].batch = 1
    /\ calls[2].op = "CreateSources" /\ calls[2].ok /\ calls[2].batch = 2
    /\ Range(calls[1].keys) \cap Range(calls[2].keys) # {}
    /\ Len(errors) = 1
    /\ errors[1].Items = batches[1].items

\* C17 as stated: buffering does not block on persistence. While a batch is
\* being persisted, a buffering task that is ready to append can do so.
C17_BufferingNotBlocked ==
    \A t \in bufferTasks :
        (persist.step # "none" /\ t.pc = "lock" /\ persist.owner # T("buf", t.item.id)) =>
            ENABLED BufferLock(t)

\* C17 amended: buffering waits for persistence. While a batch is being
\* persisted the flushing goroutine holds the mutex and the buffer is the
\* batch; no buffering task can append until persistence has finished, and
\* the record of a waiting task is not in the batch being persisted.
C17_BufferingWaitsForPersistence ==
    persist.step # "none" =>
        /\ mutex = persist.owner
        /\ mutex # Free
        /\ itemBuffer = persist.items
        /\ batches[Len(batches)].items = persist.items
        /\ \A t \in bufferTasks :
              (t.pc = "lock" /\ persist.owner # T("buf", t.item.id)) =>
                  /\ ~ENABLED BufferLock(t)
                  /\ t.item.id \notin BatchedIds

\* a buffering task waits for the mutex while another goroutine's batch is
\* at its Publish call
C17_Witness ==
    /\ persist.step = "publish"
    /\ \E t \in bufferTasks : t.pc = "lock" /\ persist.owner # T("buf", t.item.id)

\* C18: every batch handed to the persister holds between 1 and bufferSize
\* records, and whenever the mutex is not held the buffer holds fewer than
\* bufferSize records, whoever flushes (buffer, the timeout's flush, Close).
C18_BatchSizeBounded ==
    /\ \A k \in 1..Len(batches) :
          Len(batches[k].items) >= 1 /\ Len(batches[k].items) <= bufferSize
    /\ mutex = Free => Len(itemBuffer) < bufferSize

\* a batch of one record flushed by the timeout, a batch of two flushed by
\* Close, and the mutex released with the buffer empty
C18_Witness ==
    /\ Len(batches) = 2
    /\ batches[1].by = "flush" /\ Len(batches[1].items) = 1
    /\ batches[2].by \in {"closer", "sched"} /\ Len(batches[2].items) = bufferSize - 1
    /\ mutex = Free
    /\ itemBuffer = <<>>

\* C19: the final flush made by the scheduler when the parent context is
\* cancelled persists its batch. With no caller of Close and no failure of
\* storage or notifier of their own, every batch the scheduler's Close handed
\* to the persister is committed and has no failure entry.
C19_FinalFlushCommits ==
    (parentCancelled /\ closeCalls = 0 /\ failures = 0 /\ persist.step = "none") =>
        \A b \in 1..Len(batches) :
            batches[b].by = "sched" =>
                /\ b \in CommittedBatches
                /\ FailuresOf(b) = {}

\* C20: no send on a closed channel and no second close. The process never
\* panics, no Import call is at its send while the channel is closed, and
\* the channel is closed exactly when the session is stopped (the first
\* Close closes it, later ones do not).
C20_NoSendOnClosedChannel ==
    /\ ~panicked
    /\ itemChanClosed => ~SomeoneSending
    /\ itemChanClosed <=> stopped

\* Close has completed twice, an accepted Import came before and a rejected
\* one after, and nothing panicked
C20_Witness ==
    /\ Len(closeRets) >= 2
    /\ returned # {}
    /\ \E p \in Producers : producers[p].res = "closed"
    /\ itemChanClosed
    /\ ~panicked

====
